---- MODULE Spec2Model ----
(***************************************************************************)
(* Model of the telemetry store of src/app.py: the JSON file road_data.json *)
(* (load_data / save_data), the handlers that read and rewrite it           *)
(* (receive_sensor_data, get_latest, calculate_road_quality, clear_data)    *)
(* and the request threads that run them.                                   *)
(***************************************************************************)
EXTENDS Integers, Sequences, FiniteSets, TLC

\* ------------------------------------------------------------------ bounds

\* the literal 1000 of receive_sensor_data (all_data[-1000:]) and get_latest
MAX_RECORDS == 1000

\* SpecCap: number of sequential appends (more than MAX_RECORDS, to see eviction)
MaxAppends == 1002
\* SpecCap: number of operations followed after the first clear / corruption
MaxTail == 3
\* SpecSeq: records kept in the store before the model stops appending
MaxStore == 2
\* SpecSeq / SpecConc: largest reading of the wall clock
MaxClock == 2
\* SpecConc: number of request threads
MaxProcs == 3

\* ------------------------------------------------------------- JSON values

\* A JSON scalar as Python sees it.  t: "none" | "str" | "num" | "time".
\* "time" is the string datetime.isoformat() makes of the instant n.
None == [t |-> "none", s |-> "", n |-> 0]
Str(x) == [t |-> "str", s |-> x, n |-> 0]
Num(k) == [t |-> "num", s |-> "", n |-> k]
IsoFormat(c) == [t |-> "time", s |-> "", n |-> c]

\* bool(v)
Truthy(v) ==
    CASE v.t = "none" -> FALSE
      [] v.t = "str" -> v.s # ""
      [] v.t = "num" -> v.n # 0
      [] OTHER -> TRUE

\* a or b
PyOr(a, b) == IF Truthy(a) THEN a ELSE b

Digits == <<"0", "1", "2", "3", "4", "5", "6", "7", "8", "9">>

RECURSIVE NatStr(_)
NatStr(k) == IF k < 10 THEN Digits[k + 1]
             ELSE NatStr(k \div 10) \o Digits[(k % 10) + 1]

\* str(v)
PyStr(v) ==
    CASE v.t = "none" -> "None"
      [] v.t = "str" -> v.s
      [] v.t = "num" -> IF v.n < 0 THEN "-" \o NatStr(-v.n) ELSE NatStr(v.n)
      [] OTHER -> "T" \o NatStr(v.n)

\* dict.get(k) and dict.get(k, dflt); a dict is a function on its keys
Get(d, k) == IF k \in DOMAIN d THEN d[k] ELSE None
GetD(d, k, dflt) == IF k \in DOMAIN d THEN d[k] ELSE dflt

\* d[k] = v
Put(d, k, v) == [x \in (DOMAIN d) \cup {k} |-> IF x = k THEN v ELSE d[x]]

EmptyDict == [x \in {} |-> None]

\* ---------------------------------------------------------------- the file

\* road_data.json.  kind:
\*   "missing"      no such path
\*   "directory"    the path exists and open() raises OSError
\*   "blank"        empty or whitespace
\*   "garbage"      text that is not JSON (a torn or partial write included)
\*   "nonlist"      well-formed JSON that is not an array (a non-empty object)
\*   "undecodable"  bytes that are not text in the locale's encoding
\*   "list"         the JSON array data
FileOf(kind, data) == [kind |-> kind, data |-> data]

NoFile == FileOf("missing", <<>>)

\* load_data: exc is the exception that escapes ("" for none), islist whether
\* the value returned is a list, val the list
LoadData(f) ==
    CASE f.kind = "missing" -> [exc |-> "", islist |-> TRUE, val |-> <<>>]
      [] f.kind = "directory" -> [exc |-> "", islist |-> TRUE, val |-> <<>>]
      [] f.kind = "blank" -> [exc |-> "", islist |-> TRUE, val |-> <<>>]
      [] f.kind = "garbage" -> [exc |-> "", islist |-> TRUE, val |-> <<>>]
      [] f.kind = "nonlist" -> [exc |-> "", islist |-> FALSE, val |-> <<>>]
      [] f.kind = "undecodable" ->
            [exc |-> "UnicodeDecodeError", islist |-> FALSE, val |-> <<>>]
      [] OTHER -> [exc |-> "", islist |-> TRUE, val |-> f.data]

\* save_data, run without interruption.  io is what the operating system does
\* to the write: "ok", or an OSError after open() has truncated the file, with
\* nothing ("fail_empty") or part of the text ("fail_partial") written.
SaveData(f, data, io) ==
    CASE f.kind = "directory" -> [exc |-> "OSError", file |-> f]
      [] io = "fail_empty" -> [exc |-> "OSError", file |-> FileOf("blank", <<>>)]
      [] io = "fail_partial" -> [exc |-> "OSError", file |-> FileOf("garbage", <<>>)]
      [] OTHER -> [exc |-> "", file |-> FileOf("list", data)]

\* ------------------------------------------------------------ the handlers

\* a response: the HTTP status, the JSON keys of an object body, the list of a
\* list body, and the fields of the road-quality body
Resp(status, keys, body, quality, sum, total) ==
    [status |-> status, keys |-> keys, body |-> body,
     quality |-> quality, sum |-> sum, total |-> total]

Error500 == Resp(500, {}, <<>>, "", 0, 0)
Success == Resp(200, {"status"}, <<>>, "", 0, 0)
Cleared == Resp(200, {"status", "message"}, <<>>, "", 0, 0)
ListBody(s) == Resp(200, {}, s, "", 0, 0)

\* receive_sensor_data, lines 75-94: the record made of a payload at time now
Normalize(payload, now) ==
    LET d0 == Put(payload, "timestamp", IsoFormat(now))
        dev == Get(d0, "device_id")
        d1 == IF Truthy(dev) THEN Put(d0, "device_id", Str(PyStr(dev))) ELSE d0
        d2 == Put(d1, "accel_x", PyOr(Get(d1, "accel_x"), GetD(d1, "x", Num(0))))
        d3 == Put(d2, "accel_y", PyOr(Get(d2, "accel_y"), GetD(d2, "y", Num(0))))
        d4 == Put(d3, "accel_z", PyOr(Get(d3, "accel_z"), GetD(d3, "z", Num(0))))
    IN Put(d4, "accel_magnitude",
           PyOr(Get(d4, "accel_magnitude"), GetD(d4, "accelerometer", Num(0))))

\* s[-1000:]
LastRecords(s) ==
    IF Len(s) > MAX_RECORDS THEN SubSeq(s, Len(s) - MAX_RECORDS + 1, Len(s)) ELSE s

\* Retain, were the slice all_data[:1000]
RetainOldest(all_data, data) ==
    LET grown == Append(all_data, data)
    IN IF Len(grown) > MAX_RECORDS THEN SubSeq(grown, 1, MAX_RECORDS) ELSE grown

\* receive_sensor_data, lines 98-101
Retain(all_data, data) ==
    LET grown == Append(all_data, data)
    IN IF Len(grown) > MAX_RECORDS THEN LastRecords(grown) ELSE grown

\* receive_sensor_data as one uninterrupted request
ReceiveSensorData(f, payload, now, io) ==
    LET data == Normalize(payload, now)
        ld == LoadData(f)
    IN IF ld.exc # "" \/ ~ld.islist
       THEN [file |-> f, resp |-> Error500]
       ELSE LET sv == SaveData(f, Retain(ld.val, data), io)
            IN [file |-> sv.file,
                resp |-> IF sv.exc # "" THEN Error500 ELSE Success]

\* d.get('device_id') as a string equals the query's device_id
Matches(d, device_id) == PyStr(Get(d, "device_id")) = PyStr(device_id)

RECURSIVE Filter(_, _)
Filter(s, device_id) ==
    IF s = <<>> THEN <<>>
    ELSE IF Matches(Head(s), device_id)
         THEN <<Head(s)>> \o Filter(Tail(s), device_id)
         ELSE Filter(Tail(s), device_id)

\* get_latest; device_id is the query argument, None when it is not given
GetLatest(f, device_id) ==
    LET ld == LoadData(f)
    IN IF ld.exc # "" \/ ~ld.islist
       THEN Error500
       ELSE IF Truthy(device_id)
            THEN ListBody(LastRecords(Filter(ld.val, device_id)))
            ELSE ListBody(LastRecords(ld.val))

Abs(k) == IF k < 0 THEN -k ELSE k

RECURSIVE SumAbs(_)
SumAbs(s) ==
    IF s = <<>> THEN 0
    ELSE Abs(GetD(Head(s), "accel_magnitude", Num(0)).n) + SumAbs(Tail(s))

\* Label, were the comparisons <=
LabelInclusive(sum, len) ==
    IF sum <= 2 * len THEN "Excellent"
    ELSE IF sum <= 5 * len THEN "Good"
    ELSE IF sum <= 10 * len THEN "Fair"
    ELSE "Poor"

\* the label of avg_accel = sum / count, lines 138-145
Label(sum, len) ==
    IF sum < 2 * len THEN "Excellent"
    ELSE IF sum < 5 * len THEN "Good"
    ELSE IF sum < 10 * len THEN "Fair"
    ELSE "Poor"

\* calculate_road_quality; avg_vibration is carried as the sum of the
\* magnitudes, to be divided by total
CalculateRoadQuality(f, device_id) ==
    LET ld == LoadData(f)
    IN IF ld.exc # "" \/ ~ld.islist
       THEN Error500
       ELSE LET data == IF Truthy(device_id) THEN Filter(ld.val, device_id)
                        ELSE ld.val
            IN IF data = <<>>
               THEN Resp(200, {"quality"}, <<>>, "No data", 0, 0)
               ELSE IF \E i \in 1..Len(data) :
                          GetD(data[i], "accel_magnitude", Num(0)).t # "num"
                    THEN Error500
                    ELSE Resp(200, {"quality", "avg_vibration", "total_readings"},
                              <<>>, Label(SumAbs(data), Len(data)),
                              SumAbs(data), Len(data))

\* ClearData, were the file left as load_data finds it
ClearDataKeeps(f, io) == [file |-> f, resp |-> Cleared]

\* clear_data
ClearData(f, io) ==
    LET sv == SaveData(f, <<>>, io)
    IN [file |-> sv.file, resp |-> IF sv.exc # "" THEN Error500 ELSE Cleared]

\* ---------------------------------------------------------------- the state

VARIABLES
    file,        \* road_data.json
    clock,       \* the last reading of datetime.now()
    req,         \* the last request served (sequential runs)
    resp,        \* its response
    count,       \* SpecCap: append requests made so far
    tail,        \* SpecCap: operations made since the first clear / corruption
    afterClear,  \* the request before the last one was a clear-data
    thr,         \* SpecConc: the request threads
    lastFull     \* SpecConc: the last text a save_data wrote completely

vars == <<file, clock, req, resp, count, tail, afterClear, thr, lastFull>>

Procs == 1..MaxProcs

Request(op, payload, device_id, now, io) ==
    [op |-> op, payload |-> payload, device_id |-> device_id, now |-> now, io |-> io]

NoRequest == Request("none", EmptyDict, None, 0, "ok")

Idle == [pc |-> "idle", op |-> "none", data |-> EmptyDict, all_data |-> <<>>,
         seen |-> <<>>, torn |-> FALSE]

InitCommon ==
    /\ file = NoFile
    /\ clock = 0
    /\ req = NoRequest
    /\ resp = Success
    /\ count = 0
    /\ tail = 0
    /\ afterClear = FALSE
    /\ thr = [p \in Procs |-> Idle]
    /\ lastFull = <<>>

\* what the environment can leave at the path of road_data.json
CorruptKinds == {"missing", "directory", "blank", "garbage", "nonlist", "undecodable"}

\* the write outcomes of SaveData
IOs == {"ok", "fail_empty", "fail_partial"}

\* ------------------------------------------- SpecCap: one long sequential run

\* the i-th submission of the run: a device, a magnitude and a field of the
\* client's own that tells the submissions apart
CapPayload(i) ==
    LET base == [accel_magnitude |-> Num(i % 7), seq |-> Num(i)]
    IN IF i % 3 = 0 THEN base
       ELSE Put(base, "device_id", IF i % 3 = 1 THEN Str("A") ELSE Num(7))

CapBudget == tail = 0 \/ tail < MaxTail

CapAppend ==
    /\ count < MaxAppends
    /\ CapBudget
    /\ LET r == ReceiveSensorData(file, CapPayload(count + 1), clock + 1, "ok")
       IN /\ file' = r.file
          /\ resp' = r.resp
    /\ clock' = clock + 1
    /\ req' = Request("append", CapPayload(count + 1), None, clock + 1, "ok")
    /\ count' = count + 1
    /\ tail' = IF tail = 0 THEN 0 ELSE tail + 1
    /\ afterClear' = (req.op = "clear")
    /\ UNCHANGED <<thr, lastFull>>

CapClear ==
    /\ tail < MaxTail
    /\ LET r == ClearData(file, "ok")
       IN /\ file' = r.file
          /\ resp' = r.resp
    /\ req' = Request("clear", EmptyDict, None, clock, "ok")
    /\ tail' = tail + 1
    /\ afterClear' = (req.op = "clear")
    /\ UNCHANGED <<clock, count, thr, lastFull>>

\* the file is removed or overwritten from outside the program
CapCorrupt ==
    /\ tail < MaxTail
    /\ \E k \in CorruptKinds \ {"directory"} : file' = FileOf(k, <<>>)
    /\ req' = Request("corrupt", EmptyDict, None, clock, "ok")
    /\ resp' = Success
    /\ tail' = tail + 1
    /\ afterClear' = (req.op = "clear")
    /\ UNCHANGED <<clock, count, thr, lastFull>>

NextCap == CapAppend \/ CapClear \/ CapCorrupt

SpecCap == InitCommon /\ [][NextCap]_vars

\* --------------------------------------- SpecSeq: requests one after another

SeqPayloads ==
    { [device_id |-> d, accel_magnitude |-> m] :
         d \in {Str("A")}, m \in {Num(1), Num(2), Num(-5), Num(10)} }
    \cup { [accel_magnitude |-> m] : m \in {Num(1), Num(2), Num(-5), Num(10)} }
    \cup { EmptyDict,
           [device_id |-> Str("A")],
           [device_id |-> Num(7)],
           [accel_x |-> Num(5), x |-> Num(1)],
           [accel_x |-> Num(0), x |-> Num(1)],
           [x |-> Num(1), y |-> Num(2), z |-> Num(3), accelerometer |-> Num(3)],
           [accel_magnitude |-> Num(0), accelerometer |-> Num(3)],
           [timestamp |-> Str("client")] }

\* the device_id argument of a query; None when the argument is not given
QueryIds == {None, Str(""), Str("A"), Str("7"), Str("None")}

SeqNow == IF clock < MaxClock THEN clock + 1 ELSE clock

SeqAppend ==
    \E payload \in SeqPayloads, io \in IOs :
        /\ Len(LoadData(file).val) < MaxStore
        /\ LET r == ReceiveSensorData(file, payload, SeqNow, io)
           IN /\ file' = r.file
              /\ resp' = r.resp
        /\ clock' = SeqNow
        /\ req' = Request("append", payload, None, SeqNow, io)
        /\ afterClear' = (req.op = "clear")
        /\ UNCHANGED <<count, tail, thr, lastFull>>

SeqLatest ==
    \E q \in QueryIds :
        /\ resp' = GetLatest(file, q)
        /\ req' = Request("latest", EmptyDict, q, clock, "ok")
        /\ afterClear' = (req.op = "clear")
        /\ UNCHANGED <<file, clock, count, tail, thr, lastFull>>

SeqQuality ==
    \E q \in QueryIds :
        /\ resp' = CalculateRoadQuality(file, q)
        /\ req' = Request("quality", EmptyDict, q, clock, "ok")
        /\ afterClear' = (req.op = "clear")
        /\ UNCHANGED <<file, clock, count, tail, thr, lastFull>>

SeqClear ==
    \E io \in IOs :
        /\ LET r == ClearData(file, io)
           IN /\ file' = r.file
              /\ resp' = r.resp
        /\ req' = Request("clear", EmptyDict, None, clock, io)
        /\ afterClear' = (req.op = "clear")
        /\ UNCHANGED <<clock, count, tail, thr, lastFull>>

SeqCorrupt ==
    \E k \in CorruptKinds :
        /\ file' = FileOf(k, <<>>)
        /\ req' = Request("corrupt", EmptyDict, None, clock, "ok")
        /\ resp' = Success
        /\ afterClear' = (req.op = "clear")
        /\ UNCHANGED <<clock, count, tail, thr, lastFull>>

NextSeq == SeqAppend \/ SeqLatest \/ SeqQuality \/ SeqClear \/ SeqCorrupt

SpecSeq == InitCommon /\ [][NextSeq]_vars

\* ------------------------------------ SpecConc: requests on concurrent threads

\* Each thread serves one request.  A request touches the file at three
\* places, and the threads interleave between them:
\*   load_data's read                       (pc "load")
\*   save_data's open(DATA_FILE, 'w')       (pc "open"), which truncates
\*   save_data's json.dump and close        (pc "write"), which writes the text
\*     from offset 0
\* seen is what a reader's load_data returned; torn, whether that was neither
\* the last complete text nor the text a save_data in progress is writing.

ConcPayload(p) == [seq |-> Num(p)]

\* datetime.now() read again: the clock has moved on, or has not
Nows == {c \in {clock, clock + 1} : c <= MaxClock}

\* receive_sensor_data, lines 75-94
BeginAppend(p) ==
    /\ thr[p].pc = "idle"
    /\ \E now \in Nows :
          /\ clock' = now
          /\ thr' = [thr EXCEPT ![p] = [@ EXCEPT !.pc = "load", !.op = "append",
                                         !.data = Normalize(ConcPayload(p), now)]]
    /\ UNCHANGED <<file, req, resp, count, tail, afterClear, lastFull>>

\* receive_sensor_data, lines 97-101
AppendLoad(p) ==
    /\ thr[p].pc = "load"
    /\ LET ld == LoadData(file)
       IN thr' = [thr EXCEPT ![p] = [@ EXCEPT !.pc = "open",
                                      !.all_data = Retain(ld.val, thr[p].data)]]
    /\ UNCHANGED <<file, clock, req, resp, count, tail, afterClear, lastFull>>

\* clear_data up to its save_data([])
BeginClear(p) ==
    /\ thr[p].pc = "idle"
    /\ thr' = [thr EXCEPT ![p] = [@ EXCEPT !.pc = "open", !.op = "clear",
                                   !.all_data = <<>>]]
    /\ UNCHANGED <<file, clock, req, resp, count, tail, afterClear, lastFull>>

\* save_data, line 45
SaveOpen(p) ==
    /\ thr[p].pc = "open"
    /\ file' = FileOf("blank", <<>>)
    /\ thr' = [thr EXCEPT ![p] = [@ EXCEPT !.pc = "write"]]
    /\ UNCHANGED <<clock, req, resp, count, tail, afterClear, lastFull>>

\* save_data, line 46 and the close.  Over a file another thread has written
\* since this one truncated it, the text lands on top of the other's: it
\* replaces it when it is at least as long, and leaves a mix when shorter.
SaveWrite(p) ==
    /\ thr[p].pc = "write"
    /\ \/ /\ file' = FileOf("list", thr[p].all_data)
          /\ lastFull' = thr[p].all_data
       \/ /\ file.kind # "blank"
          /\ file' = FileOf("garbage", <<>>)
          /\ UNCHANGED lastFull
    /\ thr' = [thr EXCEPT ![p] = [@ EXCEPT !.pc = "done"]]
    /\ UNCHANGED <<clock, req, resp, count, tail, afterClear>>

\* the texts a reader may see whole: the last one written completely, and the
\* ones being written
WholeTexts == {lastFull} \cup {thr[q].all_data : q \in {r \in Procs : thr[r].pc = "write"}}

\* get_latest without a device_id
Read(p) ==
    /\ thr[p].pc = "idle"
    /\ LET r == GetLatest(file, None)
       IN thr' = [thr EXCEPT ![p] = [@ EXCEPT !.pc = "done", !.op = "read",
                                      !.seen = r.body,
                                      !.torn = (r.body \notin WholeTexts)]]
    /\ UNCHANGED <<file, clock, req, resp, count, tail, afterClear, lastFull>>

NextConc ==
    \E p \in Procs :
        \/ BeginAppend(p)
        \/ AppendLoad(p)
        \/ BeginClear(p)
        \/ SaveOpen(p)
        \/ SaveWrite(p)
        \/ Read(p)

SpecConc == InitCommon /\ [][NextConc]_vars

\* ------------------------------------------------------------------ claims

Min(a, b) == IF a < b THEN a ELSE b

\* the record the i-th append of SpecCap stores
CapRecord(i) == Normalize(CapPayload(i), i)

\* C1: after N appends made one after another on an empty store, all() is the
\* last min(N, 1000) appended records in append order (so never more than
\* 1000, and the oldest are the ones evicted).
C1_LastThousandInOrder ==
    tail = 0 =>
        LET kept == Min(count, MAX_RECORDS)
        IN GetLatest(file, None) =
              ListBody([i \in 1..kept |-> CapRecord(count - kept + i)])

C1_Witness ==
    /\ tail = 0
    /\ count > MAX_RECORDS
    /\ Len(GetLatest(file, None).body) = MAX_RECORDS
    /\ GetLatest(file, None).body[1] = CapRecord(count - MAX_RECORDS + 1)

AllDone == \A p \in Procs : thr[p].pc = "done"
AllAppends == \A p \in Procs : thr[p].op = "append"

\* C2: when M concurrent appends of distinct payloads on an empty store have
\* all returned, the store holds min(M, 1000) records, each appended record
\* once.
C2_NoLostAppend ==
    (AllDone /\ AllAppends) =>
        /\ file.kind = "list"
        /\ Len(file.data) = Min(MaxProcs, MAX_RECORDS)
        /\ \A p \in Procs :
              Cardinality({i \in 1..Len(file.data) : file.data[i] = thr[p].data}) = 1

\* C3: a reader running beside an append or a clear sees the complete sequence
\* of before the mutation or the complete one of after it.
C3_NoTornRead ==
    \A p \in Procs : thr[p].op = "read" => ~thr[p].torn

Stamp(r) == Get(r, "timestamp").n

\* C4: the timestamps of the stored records never decrease along the stored
\* sequence, whatever the interleaving of the append requests.
C4_TimestampsNonDecreasing ==
    file.kind = "list" =>
        \A i, j \in 1..Len(file.data) :
            i < j => Stamp(file.data[i]) <= Stamp(file.data[j])

\* a record carries a deviceId and it string-equals id
HasDevice(r, id) == "device_id" \in DOMAIN r /\ PyStr(r["device_id"]) = id.s

\* C5: get-latest with a device filter returns exactly the records of all()
\* whose deviceId string-equals the id, in order; a record without a deviceId
\* is returned for no id.
C5_ByDeviceIsFilter ==
    (req.op = "latest" /\ Truthy(req.device_id) /\ file.kind = "list") =>
        resp = ListBody(SelectSeq(file.data, LAMBDA r : HasDevice(r, req.device_id)))

Canonical == {"accel_x", "accel_y", "accel_z", "accel_magnitude"}

\* C6: a canonical key present in the payload keeps the client's value in the
\* stored record, whatever the legacy alias holds and also when the value is 0.
C6_CanonicalWins ==
    (req.op = "append" /\ resp.status = 200) =>
        \A k \in Canonical \cap DOMAIN req.payload :
            file.data[Len(file.data)][k] = req.payload[k]

\* C7: over a backing file that is unreadable or is not a well-formed sequence
\* of records, all() returns the empty sequence; it does not fail.
C7_ReadNeverFails ==
    (req.op = "latest" /\ req.device_id = None /\ file.kind # "list") =>
        resp = ListBody(<<>>)

\* the records a road-quality request with this device_id is about
Considered(id) ==
    IF Truthy(id) THEN SelectSeq(file.data, LAMBDA r : Matches(r, id))
    ELSE file.data

RECURSIVE Total(_)
Total(s) == IF s = <<>> THEN 0
            ELSE Abs(s[1]["accel_magnitude"].n) + Total(Tail(s))

\* C8: road-quality over n > 0 records of total magnitude S = sum |m| answers
\* Excellent when S/n < 2, Good when 2 <= S/n < 5, Fair when 5 <= S/n < 10 and
\* Poor when S/n >= 10, with total_readings = n; over no record it answers
\* "No data" and no numeric field.
C8_QualityThresholds ==
    (req.op = "quality" /\ file.kind = "list") =>
        LET recs == Considered(req.device_id)
            n == Len(recs)
            S == Total(recs)
        IN IF n = 0
           THEN resp.status = 200 /\ resp.quality = "No data" /\ resp.keys = {"quality"}
           ELSE /\ resp.status = 200
                /\ resp.total = n
                /\ resp.quality = "Excellent" <=> S < 2 * n
                /\ resp.quality = "Good" <=> (2 * n <= S /\ S < 5 * n)
                /\ resp.quality = "Fair" <=> (5 * n <= S /\ S < 10 * n)
                /\ resp.quality = "Poor" <=> 10 * n <= S

C8_Witness ==
    /\ req.op = "quality"
    /\ file.kind = "list"
    /\ Len(Considered(req.device_id)) = 2
    /\ Total(Considered(req.device_id)) = 4
    /\ resp.quality = "Good"

\* C9: all() after a clear is empty whatever the store held before, and after
\* an append that follows the clear it is that one record.
C9_ClearEmpties ==
    /\ req.op = "clear" => GetLatest(file, None) = ListBody(<<>>)
    /\ (req.op = "append" /\ afterClear) =>
           GetLatest(file, None) = ListBody(<<Normalize(req.payload, req.now)>>)

C9_Witness ==
    /\ req.op = "append"
    /\ afterClear
    /\ count > MAX_RECORDS + 1
    /\ tail = 2
    /\ Len(GetLatest(file, None).body) = 1

\* C10: an append whose write fails leaves all() as it was before the request.
C10_FailedAppendKeepsStore ==
    [][(req'.op = "append" /\ req'.io # "ok" /\ resp'.status = 500)
          => GetLatest(file', None) = GetLatest(file, None)]_vars

====
